---- MODULE Spec2Model ----
(***************************************************************************)
(* Model of stockAnalyser.ipynb: the scraping pipeline (fetch_page,        *)
(* get_company_name, get_current_price, get_latest_news, analyze_stock),   *)
(* the batch cell, and the sentiment summarizer with its driving loop.     *)
(*                                                                         *)
(* Text is a sequence of one-character strings.  A Python value that may   *)
(* be None carries its type; the result of soup.find carries whether a tag *)
(* was found.                                                              *)
(***************************************************************************)
EXTENDS Integers, Sequences, FiniteSets, TLC

\* ------------------------------------------------------------------------
\* Bounds of the model
\* ------------------------------------------------------------------------
MaxLen == 5
MaxItems == 3
MaxN == 2
MaxTickers == 2

\* ------------------------------------------------------------------------
\* Text helpers: str.strip() and re.sub(r"\s*\(.*?\)", "", name)
\* ------------------------------------------------------------------------
\* Python values: None and str
None == [type |-> "NoneType", text |-> <<>>]
PyStr(t) == [type |-> "str", text |-> t]

\* result of find: no tag, or a tag with its text
NoTag == [found |-> FALSE, text |-> <<>>]
Tag(t) == [found |-> TRUE, text |-> t]

\* a notebook name that is not bound yet, or bound to a value
Unbound == [bound |-> FALSE, value |-> <<>>]
Bound(v) == [bound |-> TRUE, value |-> v]

Whitespace == {" ", "\n"}

Alphabet == {"a", " ", "\n", "(", ")"}

RECURSIVE lstrip(_)
lstrip(s) ==
    IF s # <<>> /\ Head(s) \in Whitespace THEN lstrip(Tail(s)) ELSE s

RECURSIVE rstrip(_)
rstrip(s) ==
    IF s # <<>> /\ s[Len(s)] \in Whitespace
    THEN rstrip(SubSeq(s, 1, Len(s) - 1))
    ELSE s

strip(s) == rstrip(lstrip(s))

\* index of the first character at or after i that is not whitespace
RECURSIVE SkipSpace(_, _)
SkipSpace(s, i) ==
    IF i <= Len(s) /\ s[i] \in Whitespace THEN SkipSpace(s, i + 1) ELSE i

\* index of the first ")" at or after k reached over characters that "."
\* matches (anything but a newline); 0 when there is none
RECURSIVE LazyClose(_, _)
LazyClose(s, k) ==
    IF k > Len(s) THEN 0
    ELSE IF s[k] = ")" THEN k
    ELSE IF s[k] = "\n" THEN 0
    ELSE LazyClose(s, k + 1)

\* last index of the match of \s*\(.*?\) starting at i; 0 when no match
\* starts at i
MatchEnd(s, i) ==
    LET j == SkipSpace(s, i)
    IN  IF j <= Len(s) /\ s[j] = "(" THEN LazyClose(s, j + 1) ELSE 0

\* re.sub with an empty replacement: leftmost non-overlapping matches are
\* dropped, every other character is kept
RECURSIVE SubFrom(_, _)
SubFrom(s, i) ==
    IF i > Len(s) THEN <<>>
    ELSE LET e == MatchEnd(s, i)
         IN  IF e # 0 THEN SubFrom(s, e + 1)
             ELSE <<s[i]>> \o SubFrom(s, i + 1)

clean_company_name_nostrip(name) == SubFrom(name, 1)

clean_company_name(name) == strip(SubFrom(name, 1))

NameNotFound ==
    <<"N","o","m","e"," ","n","ã","o"," ","e","n","c","o","n","t","r","a","d","o">>

get_company_name_none(soup) ==
    IF soup.h1.found
    THEN PyStr(clean_company_name(strip(soup.h1.text)))
    ELSE None

\* a Tag object is always truthy, whatever its text
get_company_name(soup) ==
    IF soup.h1.found
    THEN PyStr(clean_company_name(strip(soup.h1.text)))
    ELSE PyStr(NameNotFound)

get_current_price_empty(soup) ==
    IF soup.span.found THEN PyStr(strip(soup.span.text)) ELSE PyStr(<<>>)

get_current_price(soup) ==
    IF soup.span.found THEN PyStr(strip(soup.span.text)) ELSE None

\* ------------------------------------------------------------------------
\* The outside world: quote pages, news feeds, completion service
\* ------------------------------------------------------------------------
\* the ticker lists of the batch cell and of the sentiment loop
BatchTickers == <<"AAPL", "MSFT", "GOOGL">>
LoopTickers == <<"AAPL", "MSFT", "GOOGL", "AMZN", "META">>

\* header dictionaries, by their User-Agent value
HEADERS == "Mozilla/5.0 (Windows NT 10.0; Win64; x64)"
FetchPageHeaders == "Mozilla/5.0"

\* parsed quote pages: the text of the <h1 class="yf-xxbei9"> and of the
\* <span data-testid="qsp-price">, or NoTag when the page has no such tag
HeadingTexts == {NoTag, Tag(<<" ", "A", " ", "(", "T", ")", "\n">>)}
PriceTexts == {NoTag, Tag(<<" ", "1", "9", "5", " ">>)}
Pages == [h1 : HeadingTexts, span : PriceTexts]

\* feed entries: the text of <title> and <description>, NoTag when missing
Item(title, description) ==
    [title |-> title, description |-> description]

ItemT == Item(Tag(<<" ", "t", "\n">>), Tag(<<"d", " ">>))
ItemU == Item(Tag(<<"u">>), Tag(<<"\n", "e">>))
ItemBad == Item(NoTag, Tag(<<"d">>))

FeedItems == {ItemT, ItemU, ItemBad}

SeqsUpTo(S, k) == UNION { [1..m -> S] : m \in 0..k }

\* every feed document of at most MaxItems entries
AllFeeds == SeqsUpTo(FeedItems, MaxItems)

\* the feed documents served to the cells
FixtureFeeds ==
    { <<>>, <<ItemT, ItemU>>, <<ItemU, ItemT, ItemT>>, <<ItemT, ItemBad>> }

\* final statuses of a response: success, client error, server error
StatusCodes == {200, 404, 500}

Completions == { <<" ", "o", "k", "\n">>, <<"o", "k">> }

\* exceptions, by type and by the call that raised them
Exc(type, origin) == [type |-> type, origin |-> origin]
NoExc == Exc("none", "none")

VARIABLES
    cell,          \* the caller: "none", "batch", "loop", "news"
    tickers,       \* the ticker list of the cell
    n_news,        \* the n_news argument the cell passes
    idx,           \* position of the iteration in tickers (1-based)
    pc,            \* the statement about to run
    feeds,         \* the feed documents the feed host may serve
    response,      \* fetch_page: status of the response
    soup,          \* analyze_stock: parsed quote page
    nome,          \* analyze_stock: value for "nome"
    preco_atual,   \* analyze_stock: value for "preco_atual"
    r,             \* get_latest_news: the response
    parsed,        \* get_latest_news: TRUE once the body was parsed
    items,         \* get_latest_news: xml.find_all("item")[:n]
    noticias,      \* get_latest_news: the returned rows
    res,           \* the record analyze_stock returned last
    acc,           \* batch cell: elements collected by the comprehension
    todos,         \* batch cell: the record list
    df_prices,     \* batch cell: the name/price table
    resultados,    \* loop cell: the result list
    prompt,        \* sentimento_geral_noticias: the prompt
    calls,         \* requests received by the completion service
    exc,           \* the exception that ended the cell, or NoExc
    gets,          \* HTTP GETs issued so far
    heading,       \* text of a name heading (SpecClean)
    extracted      \* name extracted from heading (SpecClean)

vars == <<feeds, cell, tickers, n_news, idx, pc, response, soup, nome,
          preco_atual, r, parsed, items, noticias, res, acc, todos,
          df_prices, resultados, prompt, calls, exc, gets, heading,
          extracted>>

locals == <<response, soup, nome, preco_atual, r, parsed, items, noticias>>
cellvars == <<cell, tickers, n_news, idx>>
results == <<res, acc, todos, df_prices, resultados>>
cleanvars == <<feeds, heading, extracted>>

\* ------------------------------------------------------------------------
\* Pure parts of the pipeline
\* ------------------------------------------------------------------------
quote_url(ticker) == [host |-> "finance.yahoo.com", ticker |-> ticker]

rss_url(ticker) == [host |-> "feeds.finance.yahoo.com", ticker |-> ticker]

raise_for_status_5xx(status) == status >= 500 /\ status < 600

\* Response.raise_for_status(): raises for the 4xx and 5xx statuses
raise_for_status(status) == status >= 400 /\ status < 600

Slice_one_more(xs, n) ==
    SubSeq(xs, 1, IF n + 1 < Len(xs) THEN n + 1 ELSE Len(xs))

\* xs[:n] for n >= 0
Slice(xs, n) == SubSeq(xs, 1, IF n < Len(xs) THEN n ELSE Len(xs))

\* it.title.text / it.description.text raise when the child is missing
Malformed(it) == ~it.title.found \/ ~it.description.found

news_row(it) ==
    [titulo |-> strip(it.title.text), resumo |-> strip(it.description.text)]

news_rows(its) == [i \in 1..Len(its) |-> news_row(its[i])]

analyze_record_swapped(ticker, n, p, news) ==
    [ticker |-> ticker, nome |-> p, preco_atual |-> n, noticias |-> news]

analyze_record(ticker, n, p, news) ==
    [ticker |-> ticker, nome |-> n, preco_atual |-> p, noticias |-> news]

price_row(rec) ==
    [ticker |-> rec.ticker, nome |-> rec.nome, preco_atual |-> rec.preco_atual]

\* str() as the f-string applies it
Str(v) == IF v.type = "NoneType" THEN <<"None">> ELSE v.text

\* the four instruction sentences, as one piece of text
Preamble == <<"Considere as notícias ... Responda em português.\n\n">>

render_row(row) ==
    <<"Título: ">> \o row.titulo \o <<"\nResumo: ">> \o row.resumo

RECURSIVE join(_)
join(textos) ==
    IF textos = <<>> THEN <<>>
    ELSE IF Len(textos) = 1 THEN textos[1]
    ELSE textos[1] \o <<"\n\n">> \o join(Tail(textos))

build_prompt_price_last(df_noticias, cotacao) ==
    Preamble
    \o join([i \in 1..Len(df_noticias) |-> render_row(df_noticias[i])])
    \o <<"\n\n", "Cotação atual: ">> \o Str(cotacao)

build_prompt(df_noticias, cotacao) ==
    Preamble \o <<"Cotação atual: ">> \o Str(cotacao) \o <<"\n\n">>
    \o join([i \in 1..Len(df_noticias) |-> render_row(df_noticias[i])])

completion_request(p) ==
    [model |-> "gpt-4o_MacielVidal_Chave1",
     messages |-> <<[role |-> "user", content |-> p]>>,
     max_tokens |-> 150,
     temperature |-> 0]

\* ------------------------------------------------------------------------
\* Initial state and control flow
\* ------------------------------------------------------------------------
\* the batch cell's list and its prefixes
BatchLists == { SubSeq(BatchTickers, 1, k) : k \in 0..Len(BatchTickers) }

\* the loop's list, cut to at most MaxTickers tickers
LoopLists == { SubSeq(LoopTickers, 1, k) : k \in 0..MaxTickers }

Init ==
    /\ feeds = FixtureFeeds
    /\ cell = "none" /\ tickers = <<>> /\ n_news = 0 /\ idx = 0
    /\ pc = "idle"
    /\ response = Unbound /\ soup = Unbound
    /\ nome = Unbound /\ preco_atual = Unbound
    /\ r = Unbound /\ parsed = FALSE /\ items = Unbound /\ noticias = Unbound
    /\ res = Unbound /\ acc = <<>> /\ todos = Unbound /\ df_prices = Unbound
    /\ resultados = Unbound
    /\ prompt = Unbound /\ calls = <<>> /\ exc = NoExc /\ gets = <<>>
    /\ heading = <<>> /\ extracted = Unbound

\* where the iteration goes when it reaches position i of ts
NextIter(ts, i) == IF i <= Len(ts) THEN "fetch_page" ELSE "finish"

Raise_wrapped(e) ==
    /\ pc' = "raised"
    /\ exc' = Exc("RuntimeError", e.origin)
    /\ UNCHANGED <<cellvars, results>>

Raise_drops_res(e) ==
    /\ pc' = "raised"
    /\ exc' = e
    /\ res' = Unbound
    /\ UNCHANGED <<cellvars, acc, todos, df_prices, resultados>>

Raise_continue(e) ==
    /\ pc' = NextIter(tickers, idx + 1)
    /\ idx' = idx + 1
    /\ exc' = exc
    /\ UNCHANGED <<cell, tickers, n_news, results>>

\* an exception nobody catches ends the cell
Raise(e) ==
    /\ pc' = "raised"
    /\ exc' = e
    /\ UNCHANGED <<cellvars, results>>

\* todos = [analyze_stock(t, n_news=3) for t in tickers]
RunBatchCell ==
    /\ pc = "idle"
    /\ \E ts \in BatchLists, n \in 1..MaxN :
        /\ cell' = "batch" /\ tickers' = ts /\ n_news' = n /\ idx' = 1
        /\ pc' = NextIter(ts, 1)
    /\ UNCHANGED <<locals, results, prompt, calls, exc, gets, cleanvars>>

\* resultados = []; for ticker in tickers: ...
RunLoopCell ==
    /\ pc = "idle"
    /\ \E ts \in LoopLists, n \in 1..MaxN :
        /\ cell' = "loop" /\ tickers' = ts /\ n_news' = n /\ idx' = 1
        /\ pc' = NextIter(ts, 1)
    /\ resultados' = Bound(<<>>)
    /\ UNCHANGED <<locals, res, acc, todos, df_prices, prompt, calls, exc,
                   gets, cleanvars>>

\* ------------------------------------------------------------------------
\* analyze_stock and the functions it calls
\* ------------------------------------------------------------------------
Get(fn, url, ua) == [fn |-> fn, url |-> url, ua |-> ua]

\* soup = fetch_page(ticker): the transport fails
FetchPageFails ==
    /\ pc = "fetch_page"
    /\ gets' = Append(gets, Get("fetch_page", quote_url(tickers[idx]),
                                FetchPageHeaders))
    /\ Raise(Exc("ConnectionError", "fetch_page"))
    /\ response' = Unbound /\ soup' = Unbound
    /\ nome' = Unbound /\ preco_atual' = Unbound
    /\ r' = Unbound /\ parsed' = FALSE /\ items' = Unbound
    /\ noticias' = Unbound
    /\ UNCHANGED <<prompt, calls, cleanvars>>

FetchPage_raise_for_status ==
    /\ pc = "fetch_page"
    /\ \E status \in StatusCodes, page \in Pages :
        /\ gets' = Append(gets, Get("fetch_page", quote_url(tickers[idx]),
                                    FetchPageHeaders))
        /\ response' = Bound(status)
        /\ IF raise_for_status(status)
           THEN /\ soup' = Unbound
                /\ Raise(Exc("HTTPError", "fetch_page"))
           ELSE /\ soup' = Bound(page)
                /\ pc' = "get_company_name"
                /\ UNCHANGED <<cellvars, results, exc>>
    /\ nome' = Unbound /\ preco_atual' = Unbound
    /\ r' = Unbound /\ parsed' = FALSE /\ items' = Unbound
    /\ noticias' = Unbound
    /\ UNCHANGED <<prompt, calls, cleanvars>>

\* soup = fetch_page(ticker): any response is parsed, whatever its status
FetchPage ==
    /\ pc = "fetch_page"
    /\ \E status \in StatusCodes, page \in Pages :
        /\ gets' = Append(gets, Get("fetch_page", quote_url(tickers[idx]),
                                    FetchPageHeaders))
        /\ response' = Bound(status)
        /\ soup' = Bound(page)
    /\ nome' = Unbound /\ preco_atual' = Unbound
    /\ r' = Unbound /\ parsed' = FALSE /\ items' = Unbound
    /\ noticias' = Unbound
    /\ pc' = "get_company_name"
    /\ UNCHANGED <<cellvars, results, prompt, calls, exc, cleanvars>>

GetCompanyName ==
    /\ pc = "get_company_name"
    /\ nome' = Bound(get_company_name(soup.value))
    /\ pc' = "get_current_price"
    /\ UNCHANGED <<cellvars, results, response, soup, preco_atual, r, parsed, items,
                   noticias, prompt, calls, exc, gets, cleanvars>>

GetCurrentPrice ==
    /\ pc = "get_current_price"
    /\ preco_atual' = Bound(get_current_price(soup.value))
    /\ pc' = "requests_get"
    /\ UNCHANGED <<cellvars, results, response, soup, nome, r, parsed, items,
                   noticias, prompt, calls, exc, gets, cleanvars>>

\* r = requests.get(rss_url, headers=HEADERS): the transport fails
NewsGetFails ==
    /\ pc = "requests_get"
    /\ gets' = Append(gets, Get("get_latest_news", rss_url(tickers[idx]),
                                HEADERS))
    /\ Raise(Exc("ConnectionError", "get_latest_news"))
    /\ UNCHANGED <<locals, prompt, calls, cleanvars>>

NewsGet ==
    /\ pc = "requests_get"
    /\ \E status \in StatusCodes, feed \in feeds :
        /\ gets' = Append(gets, Get("get_latest_news", rss_url(tickers[idx]),
                                    HEADERS))
        /\ r' = Bound([status |-> status, body |-> feed])
    /\ pc' = "raise_for_status"
    /\ UNCHANGED <<cellvars, results, response, soup, nome, preco_atual, parsed, items,
                   noticias, prompt, calls, exc, cleanvars>>

RaiseForStatus ==
    /\ pc = "raise_for_status"
    /\ IF raise_for_status(r.value.status)
       THEN Raise(Exc("HTTPError", "get_latest_news"))
       ELSE pc' = "find_all" /\ UNCHANGED <<cellvars, results, exc>>
    /\ UNCHANGED <<locals, prompt, calls, gets, cleanvars>>

\* xml = BeautifulSoup(r.text, "xml"); items = xml.find_all("item")[:n]
FindAll ==
    /\ pc = "find_all"
    /\ parsed' = TRUE
    /\ items' = Bound(Slice(r.value.body, n_news))
    /\ pc' = "rows"
    /\ UNCHANGED <<cellvars, results, response, soup, nome, preco_atual, r,
                   noticias,
                   prompt, calls, exc, gets, cleanvars>>

\* the for loop over items and the DataFrame built from dados
Rows ==
    /\ pc = "rows"
    /\ IF \E i \in 1..Len(items.value) : Malformed(items.value[i])
       THEN /\ Raise(Exc("AttributeError", "get_latest_news"))
            /\ UNCHANGED noticias
       ELSE /\ noticias' = Bound(news_rows(items.value))
            /\ pc' = "return"
            /\ UNCHANGED <<cellvars, results, exc>>
    /\ UNCHANGED <<response, soup, nome, preco_atual, r, parsed, items,
                   prompt, calls,
                   gets, cleanvars>>

\* analyze_stock returns its dict
Return ==
    /\ pc = "return"
    /\ res' = Bound(analyze_record(tickers[idx], nome.value,
                                 preco_atual.value, noticias.value))
    /\ pc' = "returned"
    /\ UNCHANGED <<cellvars, locals, acc, todos, df_prices, resultados,
                   prompt, calls, exc, gets, cleanvars>>

\* ------------------------------------------------------------------------
\* The batch cell
\* ------------------------------------------------------------------------
BatchCollect_prepend ==
    /\ pc = "returned" /\ cell = "batch"
    /\ acc' = <<res.value>> \o acc
    /\ idx' = idx + 1
    /\ pc' = NextIter(tickers, idx + 1)
    /\ UNCHANGED <<cell, tickers, n_news, locals, res, todos, df_prices,
                   resultados, prompt, calls, exc, gets, cleanvars>>

\* the comprehension takes the returned record and moves to the next ticker
BatchCollect ==
    /\ pc = "returned" /\ cell = "batch"
    /\ acc' = Append(acc, res.value)
    /\ idx' = idx + 1
    /\ pc' = NextIter(tickers, idx + 1)
    /\ UNCHANGED <<cell, tickers, n_news, locals, res, todos, df_prices,
                   resultados, prompt, calls, exc, gets, cleanvars>>

\* todos is bound once the comprehension is complete; then df_prices
BatchFinish ==
    /\ pc = "finish" /\ cell = "batch"
    /\ todos' = Bound(acc)
    /\ df_prices' = Bound([i \in 1..Len(acc) |-> price_row(acc[i])])
    /\ pc' = "done"
    /\ UNCHANGED <<cellvars, locals, res, acc, resultados, prompt, calls,
                   exc, gets, cleanvars>>

\* ------------------------------------------------------------------------
\* The sentiment loop and sentimento_geral_noticias
\* ------------------------------------------------------------------------
BuildPrompt ==
    /\ pc = "returned" /\ cell = "loop"
    /\ prompt' = Bound(build_prompt(res.value.noticias,
                                 res.value.preco_atual))
    /\ pc' = "create"
    /\ UNCHANGED <<cellvars, locals, results, calls, exc, gets, cleanvars>>

\* client.chat.completions.create(...) raises
CreateFails ==
    /\ pc = "create"
    /\ calls' = Append(calls, [request |-> completion_request(prompt.value),
                               response |-> "failed"])
    /\ Raise(Exc("APIError", "create"))
    /\ UNCHANGED <<locals, prompt, gets, cleanvars>>

\* the call answers; the stripped content goes into resultados
Create ==
    /\ pc = "create"
    /\ \E content \in Completions :
        /\ calls' = Append(calls, [request |-> completion_request(prompt.value),
                                   response |-> content])
        /\ resultados' = Bound(Append(resultados.value,
                                      [ticker |-> tickers[idx],
                                       nome |-> res.value.nome,
                                       cotacao |-> res.value.preco_atual,
                                       sentimento |-> strip(content)]))
    /\ idx' = idx + 1
    /\ pc' = NextIter(tickers, idx + 1)
    /\ UNCHANGED <<cell, tickers, n_news, locals, res, acc, todos, df_prices,
                   prompt, exc, gets, cleanvars>>

\* the loop is over; the results are printed
LoopFinish ==
    /\ pc = "finish" /\ cell = "loop"
    /\ pc' = "done"
    /\ UNCHANGED <<cellvars, locals, results, prompt, calls, exc, gets,
                   cleanvars>>

Next ==
    \/ RunBatchCell
    \/ RunLoopCell
    \/ FetchPageFails
    \/ FetchPage
    \/ GetCompanyName
    \/ GetCurrentPrice
    \/ NewsGetFails
    \/ NewsGet
    \/ RaiseForStatus
    \/ FindAll
    \/ Rows
    \/ Return
    \/ BatchCollect
    \/ BatchFinish
    \/ BuildPrompt
    \/ CreateFails
    \/ Create
    \/ LoopFinish

Spec == Init /\ [][Next]_vars

\* ------------------------------------------------------------------------
\* Name extraction on arbitrary heading texts
\* ------------------------------------------------------------------------
Texts == SeqsUpTo(Alphabet, MaxLen)

InitClean ==
    /\ feeds = FixtureFeeds
    /\ cell = "none" /\ tickers = <<>> /\ n_news = 0 /\ idx = 0
    /\ pc = "idle"
    /\ response = Unbound /\ soup = Unbound
    /\ nome = Unbound /\ preco_atual = Unbound
    /\ r = Unbound /\ parsed = FALSE /\ items = Unbound /\ noticias = Unbound
    /\ res = Unbound /\ acc = <<>> /\ todos = Unbound /\ df_prices = Unbound
    /\ resultados = Unbound
    /\ prompt = Unbound /\ calls = <<>> /\ exc = NoExc /\ gets = <<>>
    /\ heading \in Texts /\ extracted = Unbound

\* get_company_name on a page whose name heading has the text heading
ExtractName ==
    /\ extracted = Unbound
    /\ extracted' = Bound(get_company_name([h1 |-> Tag(heading),
                                             span |-> NoTag]))
    /\ UNCHANGED <<cellvars, pc, locals, results, prompt, calls, exc, gets,
                   feeds, heading>>

NextClean == ExtractName

SpecClean == InitClean /\ [][NextClean]_vars

\* ------------------------------------------------------------------------
\* get_latest_news called on its own, on arbitrary feed documents
\* ------------------------------------------------------------------------
InitNews ==
    /\ feeds = AllFeeds
    /\ cell = "news"
    /\ \E k \in 1..MaxTickers : tickers = <<LoopTickers[k]>>
    /\ n_news \in 1..MaxN
    /\ idx = 1
    /\ pc = "requests_get"
    /\ response = Unbound /\ soup = Unbound
    /\ nome = Unbound /\ preco_atual = Unbound
    /\ r = Unbound /\ parsed = FALSE /\ items = Unbound /\ noticias = Unbound
    /\ res = Unbound /\ acc = <<>> /\ todos = Unbound /\ df_prices = Unbound
    /\ resultados = Unbound
    /\ prompt = Unbound /\ calls = <<>> /\ exc = NoExc /\ gets = <<>>
    /\ heading = <<>> /\ extracted = Unbound

NextNews ==
    \/ NewsGetFails
    \/ NewsGet
    \/ RaiseForStatus
    \/ FindAll
    \/ Rows

SpecNews == InitNews /\ [][NextNews]_vars

\* ------------------------------------------------------------------------
\* Properties
\* ------------------------------------------------------------------------
Min(a, b) == IF a < b THEN a ELSE b

NoEdgeSpace(t) ==
    t = <<>> \/ (t[1] \notin Whitespace /\ t[Len(t)] \notin Whitespace)

\* t is s without its leading and trailing whitespace
IsTrimOf(t, s) ==
    /\ NoEdgeSpace(t)
    /\ \E i \in 0..Len(s) :
        /\ i + Len(t) <= Len(s)
        /\ \A k \in 1..Len(t) : s[i + k] = t[k]
        /\ \A k \in 1..Len(s) :
            (k <= i \/ k > i + Len(t)) => s[k] \in Whitespace

\* C1: when get_latest_news returns, its rows are the first min(N, k)
\* entries of the served feed, in document order, one row per entry, each
\* titulo and resumo being the entry's title and description text trimmed;
\* the call fails on the entries only when one of those first min(N, k)
\* entries lacks its title or description.
C1_NewsIsTrimmedFeedPrefix ==
    /\ pc = "return" =>
        LET feed == r.value.body
            m == Min(n_news, Len(feed))
            rows == noticias.value
        IN  /\ Len(rows) = m
            /\ \A i \in 1..m :
                /\ DOMAIN rows[i] = {"titulo", "resumo"}
                /\ IsTrimOf(rows[i].titulo, feed[i].title.text)
                /\ IsTrimOf(rows[i].resumo, feed[i].description.text)
    /\ (pc = "raised" /\ exc.type = "AttributeError") =>
        \E i \in 1..Min(n_news, Len(r.value.body)) :
            Malformed(r.value.body[i])
    /\ pc = "rows" =>
        items.value = SubSeq(r.value.body, 1, Min(n_news, Len(r.value.body)))

\* a feed longer than N was cut to N rows, and trimming changed a title
C1_Witness ==
    /\ pc = "return"
    /\ n_news = 2
    /\ Len(r.value.body) > n_news
    /\ Len(noticias.value) = 2
    /\ noticias.value[1].titulo # r.value.body[1].title.text
    /\ noticias.value[1] # noticias.value[2]

NonSuccess(status) == status < 200 \/ status > 299

\* the feed GET was answered and the status check is over
Answered ==
    \/ pc \in {"find_all", "rows", "return"}
    \/ pc = "raised" /\ exc.type # "ConnectionError"

RecordFields == {"ticker", "nome", "preco_atual", "noticias"}

\* the last two GETs are the quote page and the news feed of ticker t
LastGetsAreFor(t) ==
    /\ Len(gets) >= 2
    /\ gets[Len(gets) - 1].fn = "fetch_page"
    /\ gets[Len(gets) - 1].url = quote_url(t)
    /\ gets[Len(gets)].fn = "get_latest_news"
    /\ gets[Len(gets)].url = rss_url(t)

\* C3: the record analyze_stock returns has exactly the fields ticker,
\* nome, preco_atual, noticias; ticker is the input ticker, nome and
\* preco_atual are extracted from the page fetched for that ticker, and
\* noticias are the rows of the feed fetched for that ticker, cut to the
\* same N, in feed order.
C3_RecordIsComposedOfSubSteps ==
    pc = "returned" =>
        LET rec == res.value
            t == tickers[idx]
        IN  /\ DOMAIN rec = RecordFields
            /\ rec.ticker = t
            /\ LastGetsAreFor(t)
            /\ rec.nome = get_company_name(soup.value)
            /\ rec.preco_atual = get_current_price(soup.value)
            /\ rec.noticias = news_rows(Slice(r.value.body, n_news))
            /\ Len(rec.noticias) = Min(n_news, Len(r.value.body))

\* the second ticker's record, with a name, a price and two news rows
C3_Witness ==
    /\ pc = "returned"
    /\ idx = 2
    /\ res.value.ticker = "MSFT"
    /\ soup.value.h1.found /\ soup.value.span.found
    /\ res.value.nome = PyStr(<<"A">>)
    /\ res.value.preco_atual = PyStr(<<"1", "9", "5">>)
    /\ Len(res.value.noticias) = 2
    /\ Len(r.value.body) = 3

\* the exception each failing sub-step of analyze_stock raises
SubStepException ==
    IF ~soup.bound THEN Exc("ConnectionError", "fetch_page")
    ELSE IF ~r.bound THEN Exc("ConnectionError", "get_latest_news")
    ELSE IF ~parsed THEN Exc("HTTPError", "get_latest_news")
    ELSE Exc("AttributeError", "get_latest_news")

\* no record exists for the ticker at position idx
NoRecordForCurrent ==
    /\ res.bound => (idx > 1 /\ res.value.ticker = tickers[idx - 1])
    /\ cell = "batch" => Len(acc) = idx - 1
    /\ cell = "loop" => Len(resultados.value) = idx - 1

WholeRecord(rec) ==
    /\ DOMAIN rec = RecordFields
    /\ rec.nome.type = "str"
    /\ rec.preco_atual.type \in {"str", "NoneType"}
    /\ \A i \in 1..Len(rec.noticias) :
        DOMAIN rec.noticias[i] = {"titulo", "resumo"}

\* C4: when a sub-step of analyze_stock fails, the cell observes exactly
\* that sub-step's exception and no record exists for the ticker; a
\* returned record is whole, built from the four completed sub-steps.
C4_NoPartialSnapshot ==
    /\ (pc = "raised" /\ exc.origin # "create") =>
        /\ exc = SubStepException
        /\ ~noticias.bound
        /\ NoRecordForCurrent
    /\ pc = "returned" =>
        /\ soup.bound /\ nome.bound /\ preco_atual.bound /\ noticias.bound
        /\ res.value = [ticker |-> tickers[idx], nome |-> nome.value,
                        preco_atual |-> preco_atual.value,
                        noticias |-> noticias.value]
        /\ WholeRecord(res.value)
    /\ \A i \in 1..Len(acc) : WholeRecord(acc[i])

\* the news fetch of the second ticker fails after its name and price
\* were extracted: the exception is observed and there is no record
C4_Witness ==
    /\ pc = "raised"
    /\ idx = 2
    /\ exc = Exc("HTTPError", "get_latest_news")
    /\ nome.bound /\ preco_atual.bound
    /\ res.value.ticker = tickers[1]

\* C5: a batch in which the snapshot of ticker k fails has raised: todos
\* and df_prices are never bound, and no GET was issued for a ticker
\* after k; todos and df_prices are bound only when every ticker's
\* snapshot was built.
C5_BatchFailsFast ==
    cell = "batch" =>
        /\ pc = "raised" =>
            /\ ~todos.bound /\ ~df_prices.bound
            /\ exc = SubStepException
            /\ Len(gets) <= 2 * idx
            /\ \A g \in 1..Len(gets) :
                \E j \in 1..idx : gets[g].url.ticker = tickers[j]
        /\ (todos.bound \/ df_prices.bound) =>
            /\ pc = "done"
            /\ exc = NoExc
            /\ Len(todos.value) = Len(tickers)
            /\ Len(df_prices.value) = Len(tickers)
            /\ \A i \in 1..Len(tickers) :
                /\ todos.value[i].ticker = tickers[i]
                /\ df_prices.value[i].ticker = tickers[i]
        /\ Len(gets) > 2 * Len(acc) => ~todos.bound

\* the first ticker succeeded, the second failed, a third was waiting:
\* no result set, and nothing was requested for the third
C5_Witness ==
    /\ cell = "batch"
    /\ pc = "raised"
    /\ idx = 2
    /\ Len(tickers) = 3
    /\ Len(acc) = 1
    /\ ~todos.bound /\ ~df_prices.bound

\* C6: on a page without the price element get_current_price returns None
\* without raising: the value is not a string, so neither the empty
\* string, nor the name sentinel, nor a price text.
C6_MissingPriceIsNone ==
    /\ preco_atual.bound =>
        /\ soup.value.span.found <=> preco_atual.value.type = "str"
        /\ ~soup.value.span.found =>
            /\ preco_atual.value = None
            /\ preco_atual.value.type # "str"
            /\ preco_atual.value # PyStr(<<>>)
            /\ preco_atual.value # PyStr(NameNotFound)
            /\ preco_atual.value # nome.value
    /\ (pc = "raised" /\ nome.bound) => preco_atual.bound

\* a page with neither heading nor price: the name is the sentinel, the
\* price is None, and the pipeline went on to the news
C6_Witness ==
    /\ pc = "requests_get"
    /\ ~soup.value.span.found
    /\ ~soup.value.h1.found
    /\ preco_atual.value = None
    /\ nome.value = PyStr(NameNotFound)

\* C7: on a page without the name heading get_company_name returns the
\* fixed sentinel string and does not raise: price extraction and the
\* news fetch follow.
C7_MissingNameIsSentinel ==
    /\ nome.bound =>
        /\ nome.value.type = "str"
        /\ ~soup.value.h1.found => nome.value = PyStr(NameNotFound)
    /\ (pc = "raised" /\ soup.bound) => (nome.bound /\ preco_atual.bound)
    /\ pc \in {"get_current_price", "requests_get", "raise_for_status",
               "find_all", "rows", "return", "returned"} => nome.bound

\* a snapshot was returned for a page without the name heading
C7_Witness ==
    /\ pc = "returned"
    /\ ~soup.value.h1.found
    /\ res.value.nome = PyStr(NameNotFound)
    /\ res.value.preco_atual.type = "str"
    /\ Len(res.value.noticias) > 0

\* index of the "(" that opens the group closed at the end of s, scanning
\* backwards from i with d groups open; 0 when there is none
RECURSIVE OpenOf(_, _, _)
OpenOf(s, i, d) ==
    IF i < 1 THEN 0
    ELSE IF s[i] = ")" THEN OpenOf(s, i - 1, d + 1)
    ELSE IF s[i] = "(" THEN (IF d = 1 THEN i ELSE OpenOf(s, i - 1, d - 1))
    ELSE OpenOf(s, i - 1, d)

\* s trimmed, without the parenthesized group it ends with (if any)
StripParenSuffix(s) ==
    LET t == strip(s)
        o == IF t # <<>> /\ t[Len(t)] = ")" THEN OpenOf(t, Len(t), 0) ELSE 0
    IN  IF o = 0 THEN t ELSE strip(SubSeq(t, 1, o - 1))

\* C8 as stated: the extracted name is the heading text with its
\* parenthesized suffix stripped and surrounding whitespace trimmed.
C8_Original ==
    extracted.bound => extracted.value.text = StripParenSuffix(heading)

\* C8 amended: every parenthesized group of the heading is removed,
\* wherever it stands, not only a suffix: the extracted name has no
\* leading or trailing whitespace; when the heading has no line break the
\* name keeps no "(" that a ")" follows; a heading "<name> (<ticker>)"
\* whose name has no parenthesis and whose ticker has no ")" or line break
\* yields exactly the trimmed name; a heading without "(" yields the
\* trimmed heading.
C8_AllParenGroupsRemoved ==
    extracted.bound =>
        LET out == extracted.value.text
            h == heading
            n == Len(heading)
        IN  /\ extracted.value.type = "str"
            /\ NoEdgeSpace(out)
            /\ (\A k \in 1..n : h[k] # "\n") =>
                \A i \in 1..Len(out) : \A j \in (i + 1)..Len(out) :
                    ~(out[i] = "(" /\ out[j] = ")")
            /\ \A i \in 2..(n - 1) :
                ( /\ h[i] = "(" /\ h[i - 1] = " " /\ h[n] = ")"
                  /\ \A k \in 1..(i - 1) : h[k] \notin {"(", ")"}
                  /\ \A k \in (i + 1)..(n - 1) : h[k] \notin {")", "\n"} )
                => IsTrimOf(out, SubSeq(h, 1, i - 2))
            /\ (\A k \in 1..n : h[k] # "(") => IsTrimOf(out, h)

\* a group at the start of the heading, not a suffix, was removed
C8_Witness ==
    /\ extracted.bound
    /\ heading = <<"(", "a", ")", " ", "a">>
    /\ extracted.value = PyStr(<<"a">>)

\* the news rows 1..k in the prompt's template, separated by blank lines
RECURSIVE NewsText(_, _)
NewsText(news, k) ==
    IF k = 0 THEN <<>>
    ELSE NewsText(news, k - 1)
         \o (IF k > 1 THEN <<"\n\n">> ELSE <<>>)
         \o <<"Título: ">> \o news[k].titulo
         \o <<"\nResumo: ">> \o news[k].resumo

PriceText(v) == IF v.type = "str" THEN v.text ELSE <<"None">>

\* the prompt in hand was built from the snapshot in res
PromptIsCurrent == prompt.bound /\ pc # "returned"

SingleUserMessage(req) ==
    /\ Len(req.messages) = 1
    /\ req.messages[1].role = "user"

\* C9 as stated: the price stands after the concatenated news text.
C9_Original ==
    PromptIsCurrent =>
        LET p == prompt.value
        IN  \A i \in 1..Len(p) : \A j \in 1..Len(p) :
                (p[i] \in {"Título: ", "\nResumo: "} /\ p[j] = "Cotação atual: ")
                    => i < j

\* C9 amended: the prompt is the fixed instruction text, then the price
\* line, then every (title, summary) pair in news order in the fixed
\* template, pairs separated by a blank line: the price stands before the
\* news text, not after it.  It is sent as one single user message, and
\* the summary kept is the returned text trimmed of surrounding whitespace.
C9_PromptIsPriceThenNews ==
    /\ PromptIsCurrent =>
        LET news == res.value.noticias
        IN  prompt.value =
                Preamble \o <<"Cotação atual: ">>
                \o PriceText(res.value.preco_atual) \o <<"\n\n">>
                \o NewsText(news, Len(news))
    /\ \A j \in 1..Len(calls) : SingleUserMessage(calls[j].request)
    /\ (Len(calls) > 0 /\ pc # "create") =>
        calls[Len(calls)].request.messages[1].content = prompt.value
    /\ resultados.bound =>
        /\ Len(resultados.value) <= Len(calls)
        /\ \A j \in 1..Len(resultados.value) :
            IsTrimOf(resultados.value[j].sentimento, calls[j].response)

\* the prompt of the second ticker, with a price and two news rows, after
\* the first ticker's answer was trimmed
C9_Witness ==
    /\ pc = "create"
    /\ idx = 2
    /\ Len(res.value.noticias) = 2
    /\ res.value.noticias[1] # res.value.noticias[2]
    /\ res.value.preco_atual.type = "str"
    /\ Len(calls) = 1
    /\ calls[1].response = <<" ", "o", "k", "\n">>
    /\ resultados.value[1].sentimento = <<"o", "k">>

AnalyzePcs ==
    {"fetch_page", "get_company_name", "get_current_price", "requests_get",
     "raise_for_status", "find_all", "rows", "return", "returned"}

\* C10: the completion service is called only by the sentiment step, never
\* while a snapshot is being built; when the call fails the cell observes
\* the call's own exception, and the snapshot of that ticker is in res,
\* whole and equal to what analyze_stock computed.
C10_SentimentFailureIsLocal ==
    /\ cell = "batch" => calls = <<>>
    /\ (cell = "loop" /\ pc \in AnalyzePcs) => Len(calls) = idx - 1
    /\ (cell = "loop" /\ pc = "raised" /\ exc.origin # "create") =>
        Len(calls) = idx - 1
    /\ (pc = "raised" /\ exc.origin = "create") =>
        /\ cell = "loop"
        /\ exc = Exc("APIError", "create")
        /\ Len(calls) = idx
        /\ res.bound
        /\ res.value = [ticker |-> tickers[idx], nome |-> nome.value,
                        preco_atual |-> preco_atual.value,
                        noticias |-> noticias.value]
        /\ WholeRecord(res.value)
        /\ LastGetsAreFor(res.value.ticker)
        /\ Len(resultados.value) = idx - 1

\* the completion call of the second ticker failed; its snapshot is there
C10_Witness ==
    /\ pc = "raised"
    /\ exc.origin = "create"
    /\ idx = 2
    /\ res.value.ticker = "MSFT"
    /\ Len(res.value.noticias) > 0
    /\ Len(resultados.value) = 1

\* the GETs issued so far are, ticker by ticker in list order, the quote
\* page of the ticker and then its news feed
GetsInListOrder ==
    \A g \in 1..Len(gets) :
        LET j == (g + 1) \div 2
        IN  /\ j <= Len(tickers)
            /\ IF g % 2 = 1
               THEN /\ gets[g].fn = "fetch_page"
                    /\ gets[g].url = quote_url(tickers[j])
               ELSE /\ gets[g].fn = "get_latest_news"
                    /\ gets[g].url = rss_url(tickers[j])

\* inside one snapshot: page fetch, then name, then price, then news
StepsInOrder ==
    /\ pc = "fetch_page" => Len(gets) = 2 * (idx - 1)
    /\ pc = "get_company_name" =>
        /\ Len(gets) = 2 * idx - 1
        /\ soup.bound /\ ~nome.bound /\ ~preco_atual.bound /\ ~r.bound
    /\ pc = "get_current_price" =>
        /\ Len(gets) = 2 * idx - 1
        /\ soup.bound /\ nome.bound /\ ~preco_atual.bound /\ ~r.bound
    /\ pc = "requests_get" =>
        /\ Len(gets) = 2 * idx - 1
        /\ soup.bound /\ nome.bound /\ preco_atual.bound /\ ~r.bound
    /\ pc \in {"raise_for_status", "find_all", "rows", "return", "returned"} =>
        /\ Len(gets) = 2 * idx
        /\ soup.bound /\ nome.bound /\ preco_atual.bound /\ r.bound
    /\ pc = "raised" => Len(gets) \in {2 * idx - 1, 2 * idx}

\* C11: within one snapshot the steps run in the order page fetch, name
\* extraction, price extraction, news fetch; the builder runs once per
\* ticker in list order, all steps of a ticker before any step of the
\* next; on success the record list holds one record per ticker in the
\* order of the input list.
C11_SequentialInListOrder ==
    cell \in {"batch", "loop"} =>
        /\ StepsInOrder
        /\ GetsInListOrder
        /\ pc \in AnalyzePcs => idx \in 1..Len(tickers)
        /\ (cell = "batch" /\ pc \in AnalyzePcs \union {"raised"}) =>
            Len(acc) = idx - 1
        /\ \A i \in 1..Len(acc) : acc[i].ticker = tickers[i]
        /\ pc \in {"finish", "done"} =>
            /\ idx = Len(tickers) + 1
            /\ Len(gets) = 2 * Len(tickers)
        /\ todos.bound =>
            /\ Len(todos.value) = Len(tickers)
            /\ \A i \in 1..Len(tickers) :
                /\ todos.value[i].ticker = tickers[i]
                /\ df_prices.value[i] = price_row(todos.value[i])
        /\ (cell = "loop" /\ pc = "done") =>
            /\ Len(resultados.value) = Len(tickers)
            /\ \A i \in 1..Len(tickers) :
                resultados.value[i].ticker = tickers[i]

\* a batch over three tickers succeeded: six GETs, three records in order
C11_Witness ==
    /\ cell = "batch"
    /\ pc = "done"
    /\ tickers = <<"AAPL", "MSFT", "GOOGL">>
    /\ Len(gets) = 6
    /\ todos.value[1].ticker = "AAPL"
    /\ todos.value[3].ticker = "GOOGL"
    /\ todos.value[1] # todos.value[2]

\* C12: every GET the pipeline issues carries the same User-Agent value:
\* the one sent with the news-feed request equals the one sent with the
\* quote-page request.
C12_SameUserAgent ==
    \A i \in 1..Len(gets) : \A j \in 1..Len(gets) : gets[i].ua = gets[j].ua

\* number of quote-page GETs among the first k GETs
RECURSIVE PageGets(_)
PageGets(k) ==
    IF k = 0 THEN 0
    ELSE PageGets(k - 1) + (IF gets[k].fn = "fetch_page" THEN 1 ELSE 0)

\* calls of fetch_page made so far by the running cell
FetchPageCalls == IF pc = "fetch_page" THEN idx - 1 ELSE Min(idx, Len(tickers))

====
